---- MODULE Spec2Model ----
(***************************************************************************)
(* Model of the feature-interpretation scripts:                            *)
(*   src/feature_interpretation_analysis.py   (class FeatureInterpreter)   *)
(*   src/integrate_feature_interpretation.py  (get_best_model)             *)
(* Feature names are TLA+ strings built by the same concatenations as the  *)
(* f-strings of the source; Python lists are sequences (Python index i is  *)
(* position i+1); Python's None is the option value None.                  *)
(***************************************************************************)
EXTENDS Integers, Sequences, FiniteSets, TLC

VARIABLES
    roi_names,                   \* self.roi_names
    feature_names,               \* self.feature_names
    feature_importance_results,  \* self.feature_importance_results (insertion-ordered dict)
    importance_summary,          \* self.importance_summary (attribute absent = None)
    n_cols,                      \* X.shape[1] of the matrix handed to the scorers
    tie_break,                   \* the order np.argsort leaves equal values in
    pc,                          \* position of a pipeline run ( 'none' outside one)
    stages_done,                 \* the pipeline stages that have finished, in order
    estimated_n_rois,            \* local estimated_n_rois / n_rois of a pipeline run
    report_written,              \* parkinson_feature_importance_report.md was written
    repeated,                    \* history: the last call repeated the call before it
    calls,                       \* number of method calls made on the interpreter
    trained_models,              \* the trained_models dict handed to get_best_model
    pos,                         \* get_best_model: number of dict items the loop has visited
    best_score,                  \* get_best_model: local best_score
    best_model_name,             \* get_best_model: local best_model_name
    op,                          \* the last operation performed
    arg,                         \* its scalar argument (n_rois, top_k, feature_idx)
    ret                          \* its outcome: return value or the exception raised

vars == <<roi_names, feature_names, feature_importance_results, importance_summary,
          n_cols, tie_break, pc, stages_done, estimated_n_rois, report_written,
          repeated,
          calls, trained_models, pos, best_score, best_model_name,
          op, arg, ret>>

\* The variables only a pipeline run changes, and the argsort tie order.
pipeline_vars == <<pc, stages_done, estimated_n_rois, report_written>>

-----------------------------------------------------------------------------
(* Bounds of the model.                                                     *)

MaxRois == 4
MaxRoiLabels == 2
MaxFeatures == 2
MaxScore == 1
MaxCalls == 3
MaxRoisPipeline == 1
MaxModels == 3
MaxAccuracy == 2
MaxFragments == 3
MaxPipelineCols == 6   \* columns of the matrix of a pipeline run
MaxBioFragments == 2   \* pieces a name handed to the interpretation table is made of
MaxEstimateRois == 200 \* ROIs of the extraction whose column count is estimated from
MaxRunRois == 40       \* the same, for run_feature_interpretation_analysis

-----------------------------------------------------------------------------
(* Python values.                                                           *)

None == [some |-> FALSE, v |-> <<>>]
Some(x) == [some |-> TRUE, v |-> x]

\* Python truthiness of an optional list: None and [] are both falsy.
Truthy(opt) == opt.some /\ Len(opt.v) > 0

IndexError == "IndexError"

\* Outcome of a call: a returned value or a raised exception.
Returned(x) == [raised |-> FALSE, exc |-> "", val |-> x]
Raised(e) == [raised |-> TRUE, exc |-> e, val |-> <<>>]

\* "needle in haystack" on Python strings.
Contains(haystack, needle) ==
    \E k \in 0..(Len(haystack) - Len(needle)) :
        SubSeq(haystack, k + 1, k + Len(needle)) = needle

\* f"{i:03d}": decimal, zero-padded to a minimum width of three.
Fmt03d(i) ==
    IF i < 10 THEN "00" \o ToString(i)
    ELSE IF i < 100 THEN "0" \o ToString(i)
    ELSE ToString(i)

RECURSIVE Flatten(_)
Flatten(ss) == IF ss = <<>> THEN <<>> ELSE Head(ss) \o Flatten(Tail(ss))

Reverse(s) == [k \in 1..Len(s) |-> s[Len(s) + 1 - k]]

-----------------------------------------------------------------------------
(* FeatureInterpreter.create_feature_names                                  *)

\* f"ROI_{roi_idx:03d}" if self.roi_names is None else self.roi_names[roi_idx]
RoiName(rn, i) == IF ~rn.some THEN "ROI_" \o Fmt03d(i) ELSE rn.v[i + 1]

\* Mutant: the mean name is appended after the two variability names.
StatNamesOf_MeanLast(rn, i) ==
    << RoiName(rn, i) \o "_std_activity",
       RoiName(rn, i) \o "_var_activity",
       RoiName(rn, i) \o "_mean_activity" >>

StatNamesOf(rn, i) ==
    << RoiName(rn, i) \o "_mean_activity",
       RoiName(rn, i) \o "_std_activity",
       RoiName(rn, i) \o "_var_activity" >>

FcName(rn, i, j) == "FC_" \o RoiName(rn, i) \o "_" \o RoiName(rn, j)

freq_bands == <<"low_freq", "mid_freq", "high_freq">>

\* Mutant: the band is left out of the frequency name.
FreqNamesOf_NoBand(rn, i) ==
    [b \in 1..Len(freq_bands) |-> RoiName(rn, i) \o "_freq_power"]

FreqNamesOf(rn, i) ==
    [b \in 1..Len(freq_bands) |-> RoiName(rn, i) \o "_" \o freq_bands[b] \o "_power"]

StatBlock(rn, n) == Flatten([k \in 1..n |-> StatNamesOf(rn, k - 1)])

\* for i in range(n): for j in range(i+1, n): append FC_<i>_<j>
\* Mutant: the inner loop starts at j = i instead of j = i + 1.
FcRow_FromSelf(rn, n, i) == [k \in 1..(n - i) |-> FcName(rn, i, i + k - 1)]

FcRow(rn, n, i) == [k \in 1..(n - 1 - i) |-> FcName(rn, i, i + k)]
FcBlock(rn, n) == Flatten([k \in 1..n |-> FcRow(rn, n, k - 1)])

FreqBlock(rn, n) == Flatten([k \in 1..n |-> FreqNamesOf(rn, k - 1)])

\* Mutant: the frequency block is built before the connectivity block.
CreateFeatureNamesList_FreqFirst(rn, n) ==
    StatBlock(rn, n) \o FreqBlock(rn, n) \o FcBlock(rn, n)

CreateFeatureNamesList(rn, n) == StatBlock(rn, n) \o FcBlock(rn, n) \o FreqBlock(rn, n)

\* self.roi_names[roi_idx] raises IndexError when the label list is too short.
CreateFeatureNamesRaises(rn, n) == rn.some /\ n > Len(rn.v)

CreateFeatureNames(n) ==
    /\ calls < MaxCalls
    /\ calls' = calls + 1
    /\ op' = "create_feature_names"
    /\ arg' = n
    /\ IF CreateFeatureNamesRaises(roi_names, n)
       THEN /\ ret' = Raised(IndexError)
            /\ UNCHANGED feature_names
       ELSE /\ feature_names' = Some(CreateFeatureNamesList(roi_names, n))
            /\ ret' = Returned(CreateFeatureNamesList(roi_names, n))
    /\ UNCHANGED <<roi_names, feature_importance_results, importance_summary,
                   n_cols, trained_models, pos, best_score, best_model_name>>
    /\ UNCHANGED <<tie_break, pipeline_vars>>
    /\ repeated' = FALSE

-----------------------------------------------------------------------------
(* The importance result dictionary and the four scorers.                   *)

\* The per-feature arrays a scorer can obtain from a matrix of n columns.
ScoreArrays(n) == [1..n -> 0..MaxScore]
CoefArrays(n) == [1..n -> (0 - MaxScore)..MaxScore]

Entry(k, m, a) == [key |-> k, method |-> m, values |-> a]

Keys(d) == {d[i].key : i \in 1..Len(d)}

\* Mutant: the entry is appended even when its key is present.
DictSet_AlwaysAppend(d, e) == Append(d, e)

\* d[key] = entry on an insertion-ordered dict: a present key keeps its place.
DictSet(d, e) ==
    IF e.key \in Keys(d)
    THEN [i \in 1..Len(d) |-> IF d[i].key = e.key THEN e ELSE d[i]]
    ELSE Append(d, e)

ScorerFrame(name) ==
    /\ calls < MaxCalls
    /\ calls' = calls + 1
    /\ op' = name
    /\ arg' = 0
    /\ UNCHANGED <<roi_names, feature_names, importance_summary, n_cols,
                   trained_models, pos, best_score, best_model_name>>
    /\ UNCHANGED <<tie_break, pipeline_vars>>
    /\ repeated' = FALSE

AnalyzeUnivariate(f, mi) ==
    /\ ScorerFrame("analyze_feature_importance_univariate")
    /\ feature_importance_results' =
           DictSet(DictSet(feature_importance_results,
                           Entry("univariate_f", "F-statistic", f)),
                   Entry("univariate_mi", "Mutual Information", mi))
    /\ ret' = Returned(<<>>)   \* the SelectKBest index selections are not modelled

AnalyzeModelCoefficients(l1, l2) ==
    /\ ScorerFrame("analyze_model_coefficients")
    /\ feature_importance_results' =
           DictSet(DictSet(feature_importance_results,
                           Entry("linear_l1", "Logistic Regression L1", l1)),
                   Entry("linear_l2", "Logistic Regression L2", l2))
    /\ ret' = Returned(<<l1, l2>>)

AnalyzeTreeImportance(imp) ==
    /\ ScorerFrame("analyze_tree_importance")
    /\ feature_importance_results' =
           DictSet(feature_importance_results, Entry("tree_based", "Random Forest", imp))
    /\ ret' = Returned(imp)

AnalyzePermutationImportance(imp) ==
    /\ ScorerFrame("analyze_permutation_importance")
    /\ feature_importance_results' =
           DictSet(feature_importance_results,
                   Entry("permutation", "Permutation Importance", imp))
    /\ ret' = Returned(imp)

-----------------------------------------------------------------------------
(* FeatureInterpreter._categorize_feature                                   *)

\* Mutant: the FC_ test is made before the _mean_activity test.
CategoryOfName_FcFirst(feature_name) ==
    IF Contains(feature_name, "FC_") THEN "Functional Connectivity"
    ELSE IF Contains(feature_name, "_mean_activity") THEN "ROI Mean Activity"
    ELSE IF Contains(feature_name, "_std_activity")
            \/ Contains(feature_name, "_var_activity") THEN "ROI Variability"
    ELSE IF Contains(feature_name, "_freq_power") THEN "Frequency Power"
    ELSE "Other"

\* The if/elif chain on the feature name.
CategoryOfName(feature_name) ==
    IF Contains(feature_name, "_mean_activity") THEN "ROI Mean Activity"
    ELSE IF Contains(feature_name, "_std_activity")
            \/ Contains(feature_name, "_var_activity") THEN "ROI Variability"
    ELSE IF Contains(feature_name, "FC_") THEN "Functional Connectivity"
    ELSE IF Contains(feature_name, "_freq_power") THEN "Frequency Power"
    ELSE "Other"

\* self.feature_names[feature_idx] with a non-negative index.
CategorizeRaises(fn, feature_idx) == fn.some /\ feature_idx >= Len(fn.v)

\* Mutant: a name list is categorized like a missing one.
CategorizeFeature_AlwaysUnknown(fn, feature_idx) == "Unknown"

CategorizeFeature(fn, feature_idx) ==
    IF ~fn.some THEN "Unknown" ELSE CategoryOfName(fn.v[feature_idx + 1])

-----------------------------------------------------------------------------
(* FeatureInterpreter.create_importance_summary                             *)

Abs(x) == IF x < 0 THEN 0 - x ELSE x

\* The orderings of the indices 0..n-1.
IndexOrders(n) ==
    {p \in [1..n -> 0..(n - 1)] : \A a \in 0..(n - 1) : \E k \in 1..n : p[k] = a}

\* np.argsort(a): a permutation of the indices 0..len(a)-1 that puts the values in
\* non-decreasing order.  The default sort kind is not stable, so the order among
\* equal values is any order.
ArgSorts(a) ==
    {p \in IndexOrders(Len(a)) :
        \A x, y \in 1..Len(a) : x < y => a[p[x] + 1] <= a[p[y] + 1]}

\* The sort is deterministic: equal values come out in the one order tb, the same
\* on every call of a run.
PlaceIn(tb, i) == CHOOSE k \in 1..Len(tb) : tb[k] = i
ArgSort(a, tb) ==
    LET Before(j, i) == \/ a[j + 1] < a[i + 1]
                        \/ a[j + 1] = a[i + 1] /\ PlaceIn(tb, j) < PlaceIn(tb, i)
    IN [k \in 1..Len(a) |->
           CHOOSE i \in 0..(Len(a) - 1) :
               Cardinality({j \in 0..(Len(a) - 1) : Before(j, i)}) = k - 1]

\* s[-k:] with Python's slice rules: -0 is 0, so k = 0 keeps the whole sequence;
\* k > len(s) keeps it all; a negative k drops the first -k items.
LastSlice(s, k) ==
    LET start == IF k > 0 THEN (IF Len(s) - k > 0 THEN Len(s) - k ELSE 0)
                 ELSE (IF 0 - k < Len(s) THEN 0 - k ELSE Len(s))
    IN SubSeq(s, start + 1, Len(s))

\* Mutant: the [::-1] reversal is missing.
TopIndices_NoReverse(p, top_k) == LastSlice(p, top_k)

\* np.argsort(scores)[-top_k:][::-1] for one argsort result p.
TopIndices(p, top_k) == Reverse(LastSlice(p, top_k))

\* The methods the if/elif chain of the summary loop handles.
SummaryKeys == {"univariate_f", "linear_l2", "tree_based", "permutation"}

\* Mutant: the linear coefficients are ranked with their sign.
RankingScores_Signed(e) == e.values

\* The array a handled method is ranked by.
RankingScores(e) ==
    IF e.key = "linear_l2" THEN [i \in 1..Len(e.values) |-> Abs(e.values[i])]
    ELSE e.values

\* self.feature_names[idx] if self.feature_names else f'Feature_{idx}'
ResolvedName(fn, idx) ==
    IF Truthy(fn) THEN fn.v[idx + 1] ELSE "Feature_" \o ToString(idx)

ResolvedNameRaises(fn, idx) == Truthy(fn) /\ idx >= Len(fn.v)

\* Mutant: the score is read at the rank instead of at the feature index.
SummaryRow_ScoreAtRank(fn, e, scores, rank, idx) ==
    [method |-> e.method,
     rank |-> rank + 1,
     feature_index |-> idx,
     feature_name |-> ResolvedName(fn, idx),
     importance_score |-> scores[rank + 1],
     feature_type |-> CategorizeFeature(fn, idx)]

SummaryRow(fn, e, scores, rank, idx) ==
    [method |-> e.method,
     rank |-> rank + 1,
     feature_index |-> idx,
     feature_name |-> ResolvedName(fn, idx),
     importance_score |-> scores[idx + 1],
     feature_type |-> CategorizeFeature(fn, idx)]

RowRaises(fn, idx) == ResolvedNameRaises(fn, idx) \/ CategorizeRaises(fn, idx)

\* The outcomes of one iteration of the loop over the result dictionary: the rows
\* appended for entry e, or the IndexError of a row whose index has no name.
BlockOutcomes(fn, e, top_k) ==
    IF e.key \notin SummaryKeys THEN {Returned(<<>>)}
    ELSE LET scores == RankingScores(e) IN
         { LET top == TopIndices(p, top_k) IN
           IF \E r \in 1..Len(top) : RowRaises(fn, top[r])
           THEN Raised(IndexError)
           ELSE Returned([r \in 1..Len(top) |-> SummaryRow(fn, e, scores, r - 1, top[r])])
           : p \in {ArgSort(scores, tie_break)} }

\* The outcomes of the whole loop: the rows of all entries in dictionary order.
RECURSIVE SummaryOutcomes(_, _, _)
SummaryOutcomes(fn, d, top_k) ==
    IF d = <<>> THEN {Returned(<<>>)}
    ELSE { IF b.raised THEN b
           ELSE IF rest.raised THEN rest
           ELSE Returned(b.val \o rest.val)
           : b \in BlockOutcomes(fn, Head(d), top_k),
             rest \in SummaryOutcomes(fn, Tail(d), top_k) }

\* Mutant: the rows are appended to the table of the previous call.
CreateImportanceSummary_Appending(top_k) ==
    /\ calls < MaxCalls
    /\ calls' = calls + 1
    /\ op' = "create_importance_summary"
    /\ arg' = top_k
    /\ \E out \in SummaryOutcomes(feature_names, feature_importance_results, top_k) :
          /\ ret' = out
          /\ IF out.raised
             THEN UNCHANGED importance_summary
             ELSE importance_summary' =
                    Some((IF importance_summary.some THEN importance_summary.v ELSE <<>>)
                         \o out.val)
    /\ UNCHANGED <<roi_names, feature_names, feature_importance_results,
                   n_cols, trained_models, pos, best_score, best_model_name>>
    /\ UNCHANGED <<tie_break, pipeline_vars>>
    /\ repeated' = (op = "create_importance_summary" /\ arg = top_k)

\* summary_data starts empty on every call and the DataFrame built from it
\* replaces self.importance_summary.
CreateImportanceSummary(top_k) ==
    /\ calls < MaxCalls
    /\ calls' = calls + 1
    /\ op' = "create_importance_summary"
    /\ arg' = top_k
    /\ \E out \in SummaryOutcomes(feature_names, feature_importance_results, top_k) :
          /\ ret' = out
          /\ IF out.raised
             THEN UNCHANGED importance_summary
             ELSE importance_summary' = Some(out.val)
    /\ UNCHANGED <<roi_names, feature_names, feature_importance_results,
                   n_cols, trained_models, pos, best_score, best_model_name>>
    /\ UNCHANGED <<tie_break, pipeline_vars>>
    /\ repeated' = (op = "create_importance_summary" /\ arg = top_k)

-----------------------------------------------------------------------------
(* plot_feature_importance_comparison and generate_biological_insights      *)

KeyError == "KeyError"

\* def create_importance_summary(self, top_k=20)
DefaultTopK == 20

\* The table a reader works on and what becomes of the call.  Without a stored
\* table the reader calls create_importance_summary() first, and the IndexError
\* of that call leaves the reader.  A table without rows is a DataFrame without
\* columns: selecting 'method' or grouping by 'feature_type' raises KeyError.
\* Otherwise the reader draws or prints the rows and returns.
ReaderOutcomes(fn, d, summary) ==
    LET built == IF summary.some THEN {Returned(summary.v)}
                 ELSE SummaryOutcomes(fn, d, DefaultTopK)
    IN { IF b.raised THEN [table |-> summary, out |-> b]
         ELSE IF Len(b.val) = 0 THEN [table |-> Some(b.val), out |-> Raised(KeyError)]
         ELSE [table |-> Some(b.val), out |-> Returned(b.val)]
         : b \in built }

\* Mutant: the reader rebuilds the table on every call.
ReadSummaryTable_AlwaysRebuild(reader) ==
    /\ calls < MaxCalls
    /\ calls' = calls + 1
    /\ op' = reader
    /\ arg' = 0
    /\ \E r \in ReaderOutcomes(feature_names, feature_importance_results, None) :
          /\ importance_summary' = r.table
          /\ ret' = r.out
    /\ UNCHANGED <<roi_names, feature_names, feature_importance_results,
                   n_cols, trained_models, pos, best_score, best_model_name>>
    /\ UNCHANGED <<tie_break, pipeline_vars>>
    /\ repeated' = FALSE

\* A call of one of the two readers; ret holds the rows it drew or printed.
ReadSummaryTable(reader) ==
    /\ calls < MaxCalls
    /\ calls' = calls + 1
    /\ op' = reader
    /\ arg' = 0
    /\ \E r \in ReaderOutcomes(feature_names, feature_importance_results,
                               importance_summary) :
          /\ importance_summary' = r.table
          /\ ret' = r.out
    /\ UNCHANGED <<roi_names, feature_names, feature_importance_results,
                   n_cols, trained_models, pos, best_score, best_model_name>>
    /\ UNCHANGED <<tie_break, pipeline_vars>>
    /\ repeated' = FALSE

PlotFeatureImportanceComparison == ReadSummaryTable("plot_feature_importance_comparison")

GenerateBiologicalInsights == ReadSummaryTable("generate_biological_insights")

-----------------------------------------------------------------------------
(* get_best_model (src/integrate_feature_interpretation.py)                 *)

\* One dict item: a model name and what model.score(X_test, y_test) does.
Model(name, raises, score) == [name |-> name, raises |-> raises, score |-> score]

\* One iteration of "for name, model in trained_models.items()".
ScoreModel ==
    /\ op = "get_best_model:loop"
    /\ pos < Len(trained_models)
    /\ LET m == trained_models[pos + 1] IN
         IF m.raises
         THEN UNCHANGED <<best_score, best_model_name>>          \* except: continue
         ELSE IF m.score > best_score
              THEN /\ best_score' = m.score
                   /\ best_model_name' = Some(m.name)
              ELSE UNCHANGED <<best_score, best_model_name>>
    /\ pos' = pos + 1
    /\ UNCHANGED <<roi_names, feature_names, feature_importance_results,
                   importance_summary, n_cols, calls, trained_models, op, arg, ret>>
    /\ UNCHANGED <<tie_break, pipeline_vars>>
    /\ repeated' = FALSE

\* return best_model_name if best_model_name else list(trained_models.keys())[0]
BestModelResult(tm, best) ==
    IF best.some /\ best.v # "" THEN Returned(best.v)
    ELSE IF Len(tm) = 0 THEN Raised(IndexError)
    ELSE Returned(tm[1].name)

ReturnBestModel ==
    /\ op = "get_best_model:loop"
    /\ pos = Len(trained_models)
    /\ op' = "get_best_model"
    /\ ret' = BestModelResult(trained_models, best_model_name)
    /\ UNCHANGED <<roi_names, feature_names, feature_importance_results,
                   importance_summary, n_cols, calls, trained_models, pos,
                   best_score, best_model_name, arg>>
    /\ UNCHANGED <<tie_break, pipeline_vars>>
    /\ repeated' = FALSE

-----------------------------------------------------------------------------
(* add_feature_interpretation_to_pipeline                                   *)
(* (src/integrate_feature_interpretation.py)                                *)

\* int(np.sqrt(x)) for an integer x >= 0: the float square root of an integer of
\* this size is exact on squares and never reaches the next integer otherwise.
ISqrt(x) == CHOOSE r \in 0..x : r * r <= x /\ x < (r + 1) * (r + 1)

\* min(estimated_n_rois, 200)
RoiCap == 200

Min(a, b) == IF a < b THEN a ELSE b

\* Mutant: the estimate of the other entry point, int(np.sqrt(n_features / 6)).
EstimatedNRois_SqrtSixth(n_features) == Min(ISqrt(n_features \div 6), RoiCap)

\* estimated_n_rois = int((-11 + np.sqrt(121 + 8*n_features)) / 2), then capped.
\* The square root is at least 11, so truncation is the floor, and the floor of
\* half a real is the floor of half its floor.
EstimatedNRois(n_features) == Min((ISqrt(121 + 8 * n_features) - 11) \div 2, RoiCap)

\* Mutant: the report is written straight after the summary.
NextStage_ReportAfterSummary(stage) ==
    CASE stage = "estimate" -> "create_feature_names"
      [] stage = "create_feature_names" -> "analyze_feature_importance_univariate"
      [] stage = "analyze_feature_importance_univariate" -> "analyze_model_coefficients"
      [] stage = "analyze_model_coefficients" -> "analyze_tree_importance"
      [] stage = "analyze_tree_importance" -> "get_best_model"
      [] stage = "get_best_model" -> "analyze_permutation_importance"
      [] stage = "analyze_permutation_importance" -> "create_importance_summary"
      [] stage = "create_importance_summary" -> "create_feature_report"
      [] stage = "plot_feature_importance_comparison" -> "generate_biological_insights"
      [] stage = "generate_biological_insights" -> "analyze_parkinson_specific_features"
      [] stage = "analyze_parkinson_specific_features" -> "create_feature_report"
      [] stage = "create_feature_report" -> "return"

\* The statement that follows each statement of the function body.
NextStage(stage) ==
    CASE stage = "estimate" -> "create_feature_names"
      [] stage = "create_feature_names" -> "analyze_feature_importance_univariate"
      [] stage = "analyze_feature_importance_univariate" -> "analyze_model_coefficients"
      [] stage = "analyze_model_coefficients" -> "analyze_tree_importance"
      [] stage = "analyze_tree_importance" -> "get_best_model"
      [] stage = "get_best_model" -> "analyze_permutation_importance"
      [] stage = "analyze_permutation_importance" -> "create_importance_summary"
      [] stage = "create_importance_summary" -> "plot_feature_importance_comparison"
      [] stage = "plot_feature_importance_comparison" -> "generate_biological_insights"
      [] stage = "generate_biological_insights" -> "analyze_parkinson_specific_features"
      [] stage = "analyze_parkinson_specific_features" -> "create_feature_report"
      [] stage = "create_feature_report" -> "return"

\* The call of a stage returned: control moves to the next statement.
Finished(stage) ==
    /\ pc' = NextStage(stage)
    /\ stages_done' = Append(stages_done, stage)

\* The call of a stage raised: the exception leaves the function.
Aborted ==
    /\ pc' = "raised"
    /\ UNCHANGED stages_done

\* What no statement of the function body assigns.
PipelineFrame ==
    /\ UNCHANGED <<roi_names, n_cols, tie_break, calls, trained_models>>
    /\ repeated' = FALSE

\* n_features = X_train.shape[1] and the two assignments of estimated_n_rois.
PipelineEstimate ==
    /\ pc = "estimate"
    /\ estimated_n_rois' = EstimatedNRois(n_cols)
    /\ pc' = NextStage("estimate")
    /\ op' = "estimated_n_rois"
    /\ arg' = n_cols
    /\ ret' = Returned(<<>>)
    /\ PipelineFrame
    /\ UNCHANGED <<feature_names, feature_importance_results, importance_summary,
                   pos, best_score, best_model_name, stages_done, report_written>>

\* feature_names = interpreter.create_feature_names(estimated_n_rois)
PipelineCreateFeatureNames ==
    /\ pc = "create_feature_names"
    /\ op' = "create_feature_names"
    /\ arg' = estimated_n_rois
    /\ IF CreateFeatureNamesRaises(roi_names, estimated_n_rois)
       THEN /\ ret' = Raised(IndexError)
            /\ UNCHANGED feature_names
            /\ Aborted
       ELSE /\ feature_names' = Some(CreateFeatureNamesList(roi_names, estimated_n_rois))
            /\ ret' = Returned(CreateFeatureNamesList(roi_names, estimated_n_rois))
            /\ Finished("create_feature_names")
    /\ PipelineFrame
    /\ UNCHANGED <<feature_importance_results, importance_summary, pos, best_score,
                   best_model_name, estimated_n_rois, report_written>>

\* A scorer call of the body: it fills its entries of the result dictionary.
PipelineScorer(stage, results) ==
    /\ pc = stage
    /\ op' = stage
    /\ arg' = 0
    /\ feature_importance_results' = results
    /\ Finished(stage)
    /\ PipelineFrame
    /\ UNCHANGED <<feature_names, importance_summary, pos, best_score,
                   best_model_name, estimated_n_rois, report_written>>

PipelineUnivariate(f, mi) ==
    /\ PipelineScorer("analyze_feature_importance_univariate",
                      DictSet(DictSet(feature_importance_results,
                                      Entry("univariate_f", "F-statistic", f)),
                              Entry("univariate_mi", "Mutual Information", mi)))
    /\ ret' = Returned(<<>>)

PipelineModelCoefficients(l1, l2) ==
    /\ PipelineScorer("analyze_model_coefficients",
                      DictSet(DictSet(feature_importance_results,
                                      Entry("linear_l1", "Logistic Regression L1", l1)),
                              Entry("linear_l2", "Logistic Regression L2", l2)))
    /\ ret' = Returned(<<l1, l2>>)

PipelineTreeImportance(imp) ==
    /\ PipelineScorer("analyze_tree_importance",
                      DictSet(feature_importance_results,
                              Entry("tree_based", "Random Forest", imp)))
    /\ ret' = Returned(imp)

\* best_model_name = get_best_model(trained_models, X_test, y_test): the call;
\* ScoreModel and ReturnBestModel are the steps of the callee.
PipelineCallBestModel ==
    /\ pc = "get_best_model"
    /\ op = "analyze_tree_importance"
    /\ op' = "get_best_model:loop"
    /\ pos' = 0
    /\ best_score' = 0
    /\ best_model_name' = None
    /\ PipelineFrame
    /\ UNCHANGED <<feature_names, feature_importance_results, importance_summary,
                   arg, ret, pipeline_vars>>

\* The callee returned a name, and best_model = trained_models[best_model_name]
\* finds it; or the callee raised on an empty dictionary.
PipelineBestModelReturned ==
    /\ pc = "get_best_model"
    /\ op = "get_best_model"
    /\ IF ret.raised THEN Aborted ELSE Finished("get_best_model")
    /\ PipelineFrame
    /\ UNCHANGED <<feature_names, feature_importance_results, importance_summary,
                   pos, best_score, best_model_name, op, arg, ret,
                   estimated_n_rois, report_written>>

PipelinePermutationImportance(imp) ==
    /\ PipelineScorer("analyze_permutation_importance",
                      DictSet(feature_importance_results,
                              Entry("permutation", "Permutation Importance", imp)))
    /\ ret' = Returned(imp)

\* top_k=30
PipelineTopK == 30

\* summary_df = interpreter.create_importance_summary(top_k=30)
PipelineCreateImportanceSummary ==
    /\ pc = "create_importance_summary"
    /\ op' = "create_importance_summary"
    /\ arg' = PipelineTopK
    /\ \E out \in SummaryOutcomes(feature_names, feature_importance_results, PipelineTopK) :
          /\ ret' = out
          /\ IF out.raised
             THEN UNCHANGED importance_summary /\ Aborted
             ELSE importance_summary' = Some(out.val) /\ Finished("create_importance_summary")
    /\ PipelineFrame
    /\ UNCHANGED <<feature_names, feature_importance_results, pos, best_score,
                   best_model_name, estimated_n_rois, report_written>>

\* The three stages that read the summary table and print or draw from it.
PipelineReadSummary(stage) ==
    /\ pc = stage
    /\ op' = stage
    /\ arg' = 0
    /\ ret' = Returned(<<>>)
    /\ Finished(stage)
    /\ PipelineFrame
    /\ UNCHANGED <<feature_names, feature_importance_results, importance_summary,
                   pos, best_score, best_model_name, estimated_n_rois, report_written>>

\* create_feature_report(interpreter, summary_df, best_model_name) writes the file.
PipelineCreateFeatureReport ==
    /\ pc = "create_feature_report"
    /\ op' = "create_feature_report"
    /\ arg' = 0
    /\ ret' = Returned(<<>>)
    /\ report_written' = TRUE
    /\ Finished("create_feature_report")
    /\ PipelineFrame
    /\ UNCHANGED <<feature_names, feature_importance_results, importance_summary,
                   pos, best_score, best_model_name, estimated_n_rois>>

-----------------------------------------------------------------------------
(* analyze_top_features_for_biology: the choice of the permutation scores   *)
(* (src/notebook_feature_interpretation.py)                                 *)

\* One iteration of "for name, model in trained_models.items()".  best_model and
\* best_name are assigned together: best_model_name holds the key of best_model,
\* None while best_model is None and best_name is "".
NotebookScoreModel ==
    /\ op = "analyze_top_features_for_biology:loop"
    /\ pos < Len(trained_models)
    /\ LET m == trained_models[pos + 1] IN
         IF m.raises
         THEN UNCHANGED <<best_score, best_model_name>>          \* except: continue
         ELSE IF m.score > best_score
              THEN /\ best_score' = m.score
                   /\ best_model_name' = Some(m.name)
              ELSE UNCHANGED <<best_score, best_model_name>>
    /\ pos' = pos + 1
    /\ UNCHANGED <<roi_names, feature_names, feature_importance_results,
                   importance_summary, n_cols, calls, trained_models, op, arg, ret>>
    /\ UNCHANGED <<tie_break, pipeline_vars>>
    /\ repeated' = FALSE

\* if best_model is not None: the permutation importances of best_model;
\* else: perm_scores = coefficients.
PermScores(best) ==
    IF best.some THEN <<"permutation_importance", best.v>> ELSE <<"coefficients">>

NotebookPermScores ==
    /\ op = "analyze_top_features_for_biology:loop"
    /\ pos = Len(trained_models)
    /\ op' = "perm_scores"
    /\ ret' = Returned(PermScores(best_model_name))
    /\ UNCHANGED <<roi_names, feature_names, feature_importance_results,
                   importance_summary, n_cols, calls, trained_models, pos,
                   best_score, best_model_name, arg>>
    /\ UNCHANGED <<tie_break, pipeline_vars>>
    /\ repeated' = FALSE

-----------------------------------------------------------------------------
(* run_feature_interpretation_analysis, up to the name list                 *)
(* (src/feature_interpretation_analysis.py)                                 *)

\* n_rois = int(np.sqrt(X.shape[1] / 6)): the floor of the root of a quotient is
\* the floor of the root of the floored quotient.
NRois(n_features) == ISqrt(n_features \div 6)

\* if feature_names is None: n_rois = ...; interpreter.create_feature_names(n_rois)
RunCreateFeatureNames ==
    /\ pc = "run:feature_names"
    /\ pc' = "run:scorers"
    /\ IF feature_names = None
       THEN /\ estimated_n_rois' = NRois(n_cols)
            /\ op' = "create_feature_names"
            /\ arg' = NRois(n_cols)
            /\ IF CreateFeatureNamesRaises(roi_names, NRois(n_cols))
               THEN /\ ret' = Raised(IndexError)
                    /\ UNCHANGED feature_names
               ELSE /\ feature_names' = Some(CreateFeatureNamesList(roi_names, NRois(n_cols)))
                    /\ ret' = Returned(CreateFeatureNamesList(roi_names, NRois(n_cols)))
       ELSE UNCHANGED <<estimated_n_rois, op, arg, ret, feature_names>>
    /\ PipelineFrame
    /\ UNCHANGED <<feature_importance_results, importance_summary, pos, best_score,
                   best_model_name, stages_done, report_written>>

-----------------------------------------------------------------------------
(* FeatureInterpreter._interpret_feature_biologically                       *)

\* str.lower() on one character of an ASCII name.
LowerChar(c) ==
    CASE c = "A" -> "a" [] c = "B" -> "b" [] c = "C" -> "c" [] c = "D" -> "d"
      [] c = "E" -> "e" [] c = "F" -> "f" [] c = "G" -> "g" [] c = "H" -> "h"
      [] c = "I" -> "i" [] c = "J" -> "j" [] c = "K" -> "k" [] c = "L" -> "l"
      [] c = "M" -> "m" [] c = "N" -> "n" [] c = "O" -> "o" [] c = "P" -> "p"
      [] c = "Q" -> "q" [] c = "R" -> "r" [] c = "S" -> "s" [] c = "T" -> "t"
      [] c = "U" -> "u" [] c = "V" -> "v" [] c = "W" -> "w" [] c = "X" -> "x"
      [] c = "Y" -> "y" [] c = "Z" -> "z" [] OTHER -> c

\* feature_name.lower()
RECURSIVE Lower(_)
Lower(s) ==
    IF Len(s) = 0 THEN ""
    ELSE LowerChar(SubSeq(s, 1, 1)) \o Lower(SubSeq(s, 2, Len(s)))

\* The interpretations dict, in insertion order.
interpretations ==
    << [key |-> "motor",
        interpretation |-> "Motor control regions - directly affected by dopamine loss in Parkinson's"],
       [key |-> "basal_ganglia",
        interpretation |-> "Core region affected in Parkinson's - dopaminergic neuron loss"],
       [key |-> "substantia_nigra",
        interpretation |-> "Primary site of dopamine neuron death in Parkinson's"],
       [key |-> "putamen",
        interpretation |-> "Part of basal ganglia - motor control and habit formation"],
       [key |-> "caudate",
        interpretation |-> "Part of basal ganglia - executive function and movement initiation"],
       [key |-> "thalamus",
        interpretation |-> "Relay station - altered in Parkinson's motor circuits"],
       [key |-> "cerebellum",
        interpretation |-> "Motor coordination - compensatory changes in Parkinson's"],
       [key |-> "frontal",
        interpretation |-> "Executive function - affected in Parkinson's cognitive symptoms"],
       [key |-> "FC_",
        interpretation |-> "Altered brain network connectivity - hallmark of Parkinson's"],
       [key |-> "freq_power",
        interpretation |-> "Abnormal brain oscillations - beta band changes in Parkinson's"] >>

DefaultInterpretation == "May reflect disease-related changes in brain structure or function"

\* The loop over interpretations.items(): the first key found in the lower-cased
\* name decides; the default is returned when the loop ends without a hit.
InterpretFeature(feature_name) ==
    LET feature_lower == Lower(feature_name)
        hits == {k \in 1..Len(interpretations) :
                    Contains(feature_lower, interpretations[k].key)}
    IN IF hits = {} THEN DefaultInterpretation
       ELSE interpretations[CHOOSE k \in hits : \A h \in hits : k <= h].interpretation

InterpretFeatureBiologically(feature_name) ==
    /\ op' = "_interpret_feature_biologically"
    /\ arg' = feature_name
    /\ ret' = Returned(InterpretFeature(feature_name))
    /\ UNCHANGED <<roi_names, feature_names, feature_importance_results,
                   importance_summary, n_cols, calls, trained_models, pos, best_score,
                   best_model_name>>
    /\ UNCHANGED <<tie_break, pipeline_vars>>
    /\ repeated' = FALSE

-----------------------------------------------------------------------------
(* Direct call of the categorizer on a supplied name list.                  *)

Categorize(feature_idx) ==
    /\ calls < MaxCalls
    /\ calls' = calls + 1
    /\ op' = "_categorize_feature"
    /\ arg' = feature_idx
    /\ ret' = IF CategorizeRaises(feature_names, feature_idx)
              THEN Raised(IndexError)
              ELSE Returned(CategorizeFeature(feature_names, feature_idx))
    /\ UNCHANGED <<roi_names, feature_names, feature_importance_results,
                   importance_summary, n_cols, trained_models, pos, best_score,
                   best_model_name>>
    /\ UNCHANGED <<tie_break, pipeline_vars>>
    /\ repeated' = FALSE

-----------------------------------------------------------------------------
(* Inputs.                                                                  *)

\* ROI label lists a caller may pass to the constructor.
RoiLabels == {"motor_cortex", "putamen", "FC_hub"}
RoiLabelLists == UNION {[1..k -> RoiLabels] : k \in 0..MaxRoiLabels}

\* Feature name lists a caller may pass to the constructor.
SuppliedNames ==
    { <<"FC_A_B">>,
      <<"A_mean_activity", "A_low_freq_power", "A_volume", "FC_A_mean_activity">> }

\* Names put together from pieces of the patterns the categorizer looks for.
NameFragments == {"_mean", "_std", "_var", "_activity", "FC", "_", "_freq", "_power", "x"}
RECURSIVE Concat(_)
Concat(ss) == IF ss = <<>> THEN "" ELSE Head(ss) \o Concat(Tail(ss))
TestNames == {Concat(fs) : fs \in UNION {[1..k -> NameFragments] : k \in 0..MaxFragments}}

\* Names handed to the interpretation table: the keywords of the table, two of
\* them in another case, and pieces of synthesized names.
BioFragments ==
    {"motor", "basal_ganglia", "substantia_nigra", "putamen", "caudate", "thalamus",
     "cerebellum", "frontal", "FC_", "freq_power", "Motor", "fc_", "ROI_000", "_low"}
BioNames == {Concat(fs) : fs \in UNION {[1..k -> BioFragments] : k \in 0..MaxBioFragments}}

\* trained_models dicts: item i is named model_i; its score call raises or
\* returns an accuracy.
ModelName(i) == "model_" \o ToString(i)
ModelOutcomes ==
    {[raises |-> TRUE, score |-> 0]} \cup {[raises |-> FALSE, score |-> a] : a \in 0..MaxAccuracy}
ModelDicts ==
    UNION { { [i \in 1..k |-> Model(ModelName(i), o[i].raises, o[i].score)]
              : o \in [1..k -> ModelOutcomes] } : k \in 0..MaxModels }

\* Inputs of a pipeline run: the ROI label lists, a constant and a varying array
\* of scores or coefficients per scorer, and the two tie orders of the sort.
PipelineRoiNames == {None, Some(<<>>), Some(<<"putamen">>)}
PipelineScores(n) == {[i \in 1..n |-> 0], [i \in 1..n |-> i % (MaxScore + 1)]}
PipelineCoefs(n) ==
    {[i \in 1..n |-> 0], [i \in 1..n |-> (i % (2 * MaxScore + 1)) - MaxScore]}
IdentityOrder(n) == [k \in 1..n |-> k - 1]

\* The columns of a matrix extracted from n ROIs: 3*n statistical features,
\* n*(n-1)/2 connectivity features and 3*n frequency features.
LayoutColumns(n) == 3 * n + (n * (n - 1)) \div 2 + 3 * n
PipelineTieBreaks(n) == {IdentityOrder(n), Reverse(IdentityOrder(n))}

-----------------------------------------------------------------------------
(* Specifications.                                                          *)

\* FeatureInterpreter.__init__ and the locals of a get_best_model call.
Constructed(fn, rn) ==
    /\ feature_names = fn
    /\ roi_names = rn
    /\ feature_importance_results = <<>>
    /\ importance_summary = None
    /\ calls = 0
    /\ arg = 0
    /\ ret = Returned(<<>>)

BestModelEntry(tm) ==
    /\ trained_models = tm
    /\ pos = 0
    /\ best_score = 0
    /\ best_model_name = None

\* No pipeline run is in progress.
NoPipeline ==
    /\ pc = "none"
    /\ stages_done = <<>>
    /\ estimated_n_rois = 0
    /\ report_written = FALSE
    /\ repeated = FALSE

\* The interpreter: scorers, name synthesis and summary in any order.
Init ==
    /\ \E fn \in {None} \cup {Some(l) : l \in SuppliedNames} : Constructed(fn, None)
    /\ n_cols \in 1..MaxFeatures
    /\ tie_break \in IndexOrders(n_cols)
    /\ NoPipeline
    /\ BestModelEntry(<<>>)
    /\ op = "__init__"

Next ==
    \/ \E n \in 0..MaxRoisPipeline : CreateFeatureNames(n)
    \/ \E f, mi \in ScoreArrays(n_cols) : AnalyzeUnivariate(f, mi)
    \/ \E l1, l2 \in CoefArrays(n_cols) : AnalyzeModelCoefficients(l1, l2)
    \/ \E imp \in ScoreArrays(n_cols) : AnalyzeTreeImportance(imp)
    \/ \E imp \in ScoreArrays(n_cols) : AnalyzePermutationImportance(imp)
    \/ \E top_k \in 0..(n_cols + 1) : CreateImportanceSummary(top_k)

Spec == Init /\ [][Next]_vars

\* The same interface with the two readers of the summary table.
InitReaders == Init

NextReaders ==
    \/ Next
    \/ PlotFeatureImportanceComparison
    \/ GenerateBiologicalInsights

SpecReaders == InitReaders /\ [][NextReaders]_vars

\* The feature namer alone.
InitNames ==
    /\ \E rn \in {None} \cup {Some(l) : l \in RoiLabelLists} : Constructed(None, rn)
    /\ n_cols = 0
    /\ tie_break = <<>>
    /\ NoPipeline
    /\ BestModelEntry(<<>>)
    /\ op = "__init__"

NextNames == \E n \in 0..MaxRois : CreateFeatureNames(n)

SpecNames == InitNames /\ [][NextNames]_vars

\* The categorizer alone, on a one-name list.
InitCat ==
    /\ \E name \in TestNames : Constructed(Some(<<name>>), None)
    /\ n_cols = 0
    /\ tie_break = <<>>
    /\ NoPipeline
    /\ BestModelEntry(<<>>)
    /\ op = "__init__"

NextCat == \E feature_idx \in 0..1 : Categorize(feature_idx)

SpecCat == InitCat /\ [][NextCat]_vars

\* One call of get_best_model.
InitBest ==
    /\ Constructed(None, None)
    /\ n_cols = 0
    /\ tie_break = <<>>
    /\ NoPipeline
    /\ \E tm \in ModelDicts : BestModelEntry(tm)
    /\ op = "get_best_model:loop"

NextBest == ScoreModel \/ ReturnBestModel

SpecBest == InitBest /\ [][NextBest]_vars

\* The namer followed by direct calls of the categorizer on the names it made.
InitNamesCat == InitNames

NextNamesCat ==
    \/ \E n \in 0..MaxRois : CreateFeatureNames(n)
    \/ \E feature_idx \in 0..LayoutColumns(MaxRois) : Categorize(feature_idx)

SpecNamesCat == InitNamesCat /\ [][NextNamesCat]_vars

\* The best-model loop of analyze_top_features_for_biology on a models dict.
InitNotebook ==
    /\ Constructed(None, None)
    /\ n_cols = 0
    /\ tie_break = <<>>
    /\ NoPipeline
    /\ \E tm \in ModelDicts : BestModelEntry(tm)
    /\ op = "analyze_top_features_for_biology:loop"

NextNotebook == NotebookScoreModel \/ NotebookPermScores

SpecNotebook == InitNotebook /\ [][NextNotebook]_vars

\* Calls of the interpretation table on a fresh interpreter.
InitBio ==
    /\ Constructed(None, None)
    /\ n_cols = 0
    /\ tie_break = <<>>
    /\ NoPipeline
    /\ BestModelEntry(<<>>)
    /\ op = "__init__"

NextBio == \E feature_name \in BioNames : InterpretFeatureBiologically(feature_name)

SpecBio == InitBio /\ [][NextBio]_vars

\* One run of add_feature_interpretation_to_pipeline, from the construction of
\* the interpreter on.
InitPipeline ==
    /\ \E rn \in PipelineRoiNames : Constructed(None, rn)
    /\ n_cols \in 1..MaxPipelineCols
    /\ tie_break \in PipelineTieBreaks(n_cols)
    /\ \E tm \in ModelDicts : BestModelEntry(tm)
    /\ pc = "estimate"
    /\ stages_done = <<>>
    /\ estimated_n_rois = 0
    /\ report_written = FALSE
    /\ repeated = FALSE
    /\ op = "__init__"

NextPipeline ==
    \/ PipelineEstimate
    \/ PipelineCreateFeatureNames
    \/ \E f \in PipelineScores(n_cols) : PipelineUnivariate(f, [i \in 1..n_cols |-> 0])
    \/ \E l2 \in PipelineCoefs(n_cols) :
          PipelineModelCoefficients([i \in 1..n_cols |-> 0], l2)
    \/ \E imp \in PipelineScores(n_cols) : PipelineTreeImportance(imp)
    \/ PipelineCallBestModel
    \/ ScoreModel
    \/ ReturnBestModel
    \/ PipelineBestModelReturned
    \/ \E imp \in PipelineScores(n_cols) : PipelinePermutationImportance(imp)
    \/ PipelineCreateImportanceSummary
    \/ PipelineReadSummary("plot_feature_importance_comparison")
    \/ PipelineReadSummary("generate_biological_insights")
    \/ PipelineReadSummary("analyze_parkinson_specific_features")
    \/ PipelineCreateFeatureReport

SpecPipeline == InitPipeline /\ [][NextPipeline]_vars

\* The head of a pipeline run, up to the synthesized names, on matrices whose
\* column count is that of an extraction from some number of ROIs.
InitEstimate ==
    /\ Constructed(None, None)
    /\ n_cols \in {LayoutColumns(n) : n \in 1..MaxEstimateRois}
    /\ tie_break = <<>>
    /\ BestModelEntry(<<>>)
    /\ pc = "estimate"
    /\ stages_done = <<>>
    /\ estimated_n_rois = 0
    /\ report_written = FALSE
    /\ repeated = FALSE
    /\ op = "__init__"

NextEstimate == PipelineEstimate \/ PipelineCreateFeatureNames

SpecEstimate == InitEstimate /\ [][NextEstimate]_vars

\* The head of run_feature_interpretation_analysis, with and without a supplied
\* name list, on matrices whose column count is that of an extraction.
InitRun ==
    /\ \E fn \in {None} \cup {Some(l) : l \in SuppliedNames} : Constructed(fn, None)
    /\ n_cols \in {LayoutColumns(n) : n \in 1..MaxRunRois}
    /\ tie_break = <<>>
    /\ BestModelEntry(<<>>)
    /\ pc = "run:feature_names"
    /\ stages_done = <<>>
    /\ estimated_n_rois = 0
    /\ report_written = FALSE
    /\ repeated = FALSE
    /\ op = "__init__"

NextRun == RunCreateFeatureNames

SpecRun == InitRun /\ [][NextRun]_vars

-----------------------------------------------------------------------------
(* Properties of the feature namer (SpecNames).                             *)

NamerReturned == op = "create_feature_names" /\ ~ret.raised

NameCount(n) == 3 * n + (n * (n - 1)) \div 2 + 3 * n

Distinct(s) == \A x, y \in 1..Len(s) : x # y => s[x] # s[y]

\* C1: with no ROI label list, create_feature_names(n) returns and stores a list
\* of exactly 3n + n(n-1)/2 + 3n pairwise distinct names; for n = 2 these are 13
\* names of which exactly one, FC_ROI_000_ROI_001, is a connectivity name.
C1_NameCountDistinct ==
    (NamerReturned /\ ~roi_names.some) =>
        /\ feature_names = Some(ret.val)
        /\ Len(ret.val) = NameCount(arg)
        /\ Distinct(ret.val)
        /\ arg = 2 =>
              /\ Len(ret.val) = 13
              /\ \E k \in 1..13 :
                    /\ ret.val[k] = "FC_ROI_000_ROI_001"
                    /\ \A m \in 1..13 : Contains(ret.val[m], "FC_") => m = k

C1_Witness ==
    /\ NamerReturned /\ ~roi_names.some /\ arg = 2
    /\ Len(feature_names.v) = 13
    /\ feature_names.v[7] = "FC_ROI_000_ROI_001"

\* The label of ROI i as the caller sees it, and whether the labels tell ROIs apart.
LabelOf(i) == IF roi_names.some THEN roi_names.v[i + 1] ELSE "ROI_" \o Fmt03d(i)
LabelsDistinct == roi_names.some => Distinct(roi_names.v)

ConnectivityNames(names, n) == SubSeq(names, 3 * n + 1, 3 * n + (n * (n - 1)) \div 2)

\* C2: the connectivity names of create_feature_names(n) correspond one-to-one to
\* the unordered pairs {i, j}, i # j, of ROI indices: each pair has exactly one
\* name FC_<roi_i>_<roi_j> with i < j, every connectivity name is the name of such
\* a pair, and none pairs an ROI with itself.
C2_ConnectivityPairs ==
    (NamerReturned /\ LabelsDistinct) =>
        LET fc == ConnectivityNames(ret.val, arg)
            rois == 0..(arg - 1)
        IN /\ \A i, j \in rois : i < j =>
                 Cardinality({k \in 1..Len(fc) :
                     fc[k] = "FC_" \o LabelOf(i) \o "_" \o LabelOf(j)}) = 1
           /\ \A k \in 1..Len(fc) : \E i, j \in rois :
                 i < j /\ fc[k] = "FC_" \o LabelOf(i) \o "_" \o LabelOf(j)
           /\ \A k \in 1..Len(fc) : \A i \in rois :
                 fc[k] # "FC_" \o LabelOf(i) \o "_" \o LabelOf(i)
           /\ \A m \in 1..Len(ret.val) :
                 (m <= 3 * arg \/ m > 3 * arg + Len(fc)) =>
                     \A i, j \in rois :
                         ret.val[m] # "FC_" \o LabelOf(i) \o "_" \o LabelOf(j)

C2_Witness ==
    /\ NamerReturned /\ ~roi_names.some /\ arg = 3
    /\ ConnectivityNames(feature_names.v, 3) =
           <<"FC_ROI_000_ROI_001", "FC_ROI_000_ROI_002", "FC_ROI_001_ROI_002">>

\* C3: the list is three consecutive blocks: positions 0..3n-1 the statistic
\* names (mean, std, var of ROI 0, then ROI 1, ...), then the n(n-1)/2
\* connectivity names in row-major order of (i, j), i < j, then the 3n frequency
\* names grouped by ROI (low, mid, high of ROI 0, then ROI 1, ...).
C3_BlockLayout ==
    NamerReturned =>
        LET n == arg
            names == ret.val
            pairs == (n * (n - 1)) \div 2
            stat == <<"_mean_activity", "_std_activity", "_var_activity">>
            band == <<"_low_freq_power", "_mid_freq_power", "_high_freq_power">>
        IN /\ Len(names) = 3 * n + pairs + 3 * n
           /\ \A r \in 0..(n - 1) : \A t \in 0..2 :
                 names[3 * r + t + 1] = LabelOf(r) \o stat[t + 1]
           /\ \A i, j \in 0..(n - 1) : i < j =>
                 names[3 * n + (i * n - (i * (i + 1)) \div 2) + (j - i - 1) + 1]
                     = "FC_" \o LabelOf(i) \o "_" \o LabelOf(j)
           /\ \A r \in 0..(n - 1) : \A t \in 0..2 :
                 names[3 * n + pairs + 3 * r + t + 1] = LabelOf(r) \o band[t + 1]

C3_Witness ==
    /\ NamerReturned /\ ~roi_names.some /\ arg = 3
    /\ feature_names.v[9] = "ROI_002_var_activity"
    /\ feature_names.v[10] = "FC_ROI_000_ROI_001"
    /\ feature_names.v[12] = "FC_ROI_001_ROI_002"
    /\ feature_names.v[13] = "ROI_000_low_freq_power"
    /\ feature_names.v[21] = "ROI_002_high_freq_power"

-----------------------------------------------------------------------------
(* Properties of the summary table (Spec).                                  *)

\* The state right after a create_importance_summary call that returned.
SummaryBuilt == op = "create_importance_summary" /\ ~ret.raised

Rows == importance_summary.v

\* The rows of one method, in table order.
Block(m) == SelectSeq(Rows, LAMBDA r : r.method = m)

\* The entries of the result dictionary the summary aggregates.
Aggregated ==
    {feature_importance_results[i] : i \in
        {k \in 1..Len(feature_importance_results) :
            feature_importance_results[k].key \in SummaryKeys}}

\* C4: for every top_k from 0 up to the number of features the summary has
\* exactly top_k rows for each aggregated method whose scorer has run, ranked
\* 1, 2, ..., top_k in row order.
C4_ExactlyTopKRows ==
    (SummaryBuilt /\ arg \in 0..n_cols) =>
        \A e \in Aggregated :
            /\ Len(Block(e.method)) = arg
            /\ \A r \in 1..Len(Block(e.method)) : Block(e.method)[r].rank = r

\* C5: within each method's block the rows are in non-increasing order of
\* importance_score, the feature indices are pairwise distinct, and every feature
\* of the method outside the block scores no more than any feature in the block.
C5_BlockIsSortedTop ==
    SummaryBuilt =>
        \A e \in Aggregated :
            LET b == Block(e.method)
                inBlock == {b[r].feature_index : r \in 1..Len(b)}
            IN /\ \A r \in 1..(Len(b) - 1) :
                     b[r].importance_score >= b[r + 1].importance_score
               /\ \A r, t \in 1..Len(b) : r # t => b[r].feature_index # b[t].feature_index
               /\ \A x \in (0..(n_cols - 1)) \ inBlock : \A r \in 1..Len(b) :
                     (IF e.key = "linear_l2" THEN Abs(e.values[x + 1]) ELSE e.values[x + 1])
                         <= b[r].importance_score

C5_Witness ==
    /\ SummaryBuilt /\ arg = 1 /\ n_cols = 2
    /\ \E e \in Aggregated :
          /\ e.key = "tree_based" /\ e.values = <<1, 0>>
          /\ Len(Block(e.method)) = 1
          /\ Block(e.method)[1].feature_index = 0
          /\ Block(e.method)[1].importance_score = 1

\* C6: in every row built while a name list is set, feature_name is the entry of
\* the list at feature_index, importance_score is the method's score at
\* feature_index, and feature_type is the categorizer's output for that name.
C6_RowFieldsAgree ==
    (SummaryBuilt /\ feature_names.some) =>
        \A r \in 1..Len(Rows) :
            LET row == Rows[r] IN
            /\ row.feature_index \in 0..(Len(feature_names.v) - 1)
            /\ row.feature_name = feature_names.v[row.feature_index + 1]
            /\ \E e \in Aggregated :
                  /\ e.method = row.method
                  /\ row.importance_score =
                         (IF e.key = "linear_l2" THEN Abs(e.values[row.feature_index + 1])
                          ELSE e.values[row.feature_index + 1])
            /\ row.feature_type = CategoryOfName(row.feature_name)

C6_Witness ==
    /\ SummaryBuilt /\ feature_names.some /\ n_cols = 2
    /\ \E r \in 1..Len(Rows) :
          /\ Rows[r].method = "Logistic Regression L2"
          /\ Rows[r].feature_index = 1
          /\ Rows[r].feature_name = "A_low_freq_power"
          /\ Rows[r].feature_type = "Frequency Power"
          /\ Rows[r].importance_score = 1
          /\ Rows[r].rank = 1

\* C7: the summary has a block of rows for each method's result held in the
\* result dictionary: every method stored there appears as a method label.
C7_EveryStoredMethodAppears ==
    SummaryBuilt =>
        \A i \in 1..Len(feature_importance_results) :
            \E r \in 1..Len(Rows) : Rows[r].method = feature_importance_results[i].method

FiveCategories ==
    {"ROI Mean Activity", "ROI Variability", "Functional Connectivity",
     "Frequency Power", "Other"}

\* C9 as stated: with or without feature names, the feature_type of every summary
\* row is one of the five fixed categories.
C9_AlwaysOneOfFive ==
    importance_summary.some =>
        \A r \in 1..Len(Rows) : Rows[r].feature_type \in FiveCategories

\* C9 as amended: the feature_type of every summary row is one of the five fixed
\* categories when the summary is built with a feature name list set, and is the
\* sixth value Unknown when it is built with none.
C9_FiveOrUnknown ==
    /\ importance_summary.some =>
          \A r \in 1..Len(Rows) : Rows[r].feature_type \in FiveCategories \cup {"Unknown"}
    /\ (SummaryBuilt /\ feature_names.some) =>
          \A r \in 1..Len(Rows) : Rows[r].feature_type \in FiveCategories
    /\ (SummaryBuilt /\ ~feature_names.some) =>
          \A r \in 1..Len(Rows) : Rows[r].feature_type = "Unknown"

C9_Witness ==
    /\ SummaryBuilt /\ ~feature_names.some
    /\ Len(Rows) > 0
    /\ Rows[1].feature_type = "Unknown"
    /\ Rows[1].feature_name = "Feature_" \o ToString(Rows[1].feature_index)

-----------------------------------------------------------------------------
(* Properties of the categorizer (SpecCat).                                 *)

CategorizerReturned == op = "_categorize_feature" /\ ~ret.raised

\* C8: the categorizer is a total function of the name: every name gets exactly
\* one of the five categories, by the first matching rule in the order
\* _mean_activity, _std_activity or _var_activity, FC_, _freq_power, otherwise
\* Other; a name with both _mean_activity and FC_ is ROI Mean Activity.
C8_FirstMatchWins ==
    (op = "_categorize_feature" /\ arg < Len(feature_names.v)) =>
        LET name == feature_names.v[arg + 1]
            mean == Contains(name, "_mean_activity")
            vary == Contains(name, "_std_activity") \/ Contains(name, "_var_activity")
            fc == Contains(name, "FC_")
            freq == Contains(name, "_freq_power")
        IN /\ ~ret.raised
           /\ ret.val \in FiveCategories
           /\ mean => ret.val = "ROI Mean Activity"
           /\ (~mean /\ vary) => ret.val = "ROI Variability"
           /\ (~mean /\ ~vary /\ fc) => ret.val = "Functional Connectivity"
           /\ (~mean /\ ~vary /\ ~fc /\ freq) => ret.val = "Frequency Power"
           /\ (~mean /\ ~vary /\ ~fc /\ ~freq) => ret.val = "Other"

C8_Witness ==
    /\ CategorizerReturned
    /\ feature_names.v[arg + 1] = "FC_mean_activity"
    /\ ret.val = "ROI Mean Activity"

-----------------------------------------------------------------------------
(* Properties of get_best_model (SpecBest).                                 *)

BestModelReturned == op = "get_best_model" /\ ~ret.raised

\* C10: an exception while scoring one model is swallowed and the model skipped;
\* the first dictionary entry is the fallback if every model fails to score, and
\* only then is a model that failed to score returned.
C10_FailedModelOnlyIfAllFail ==
    BestModelReturned =>
        /\ (\A i \in 1..Len(trained_models) : trained_models[i].raises)
               => ret.val = trained_models[1].name
        /\ (\E i \in 1..Len(trained_models) :
                trained_models[i].name = ret.val /\ trained_models[i].raises)
               => \A i \in 1..Len(trained_models) : trained_models[i].raises

\* ---------------------------------------------------------------------------
\* Name list and column count out of step
\* ---------------------------------------------------------------------------

\* C11: when the feature name list is not as long as the matrix is wide, the
\* summary call still completes without raising, whatever the scores are.
C11_MismatchNeverRaises ==
    (/\ op = "create_importance_summary"
     /\ feature_names.some
     /\ Len(feature_names.v) # n_cols) => ~ret.raised

\* ---------------------------------------------------------------------------
\* Sign of the linear coefficients
\* ---------------------------------------------------------------------------

\* The coefficient array a with the entries at the positions in S negated.
Negated(a, S) == [i \in 1..Len(a) |-> IF i \in S THEN 0 - a[i] ELSE a[i]]

L2Entries == {e \in Aggregated : e.key = "linear_l2"}

\* C12: the Logistic Regression L2 block ranks by the absolute value of the
\* coefficient: every importance_score of the block is the absolute value of the
\* coefficient at its feature index, hence non-negative, no feature outside the
\* block has a larger absolute coefficient, and the block built from the
\* coefficients with any subset of them negated is the same block.
C12_L2BlockIgnoresSign ==
    SummaryBuilt =>
        \A e \in L2Entries :
            LET b == Block(e.method)
                inBlock == {b[r].feature_index : r \in 1..Len(b)}
            IN /\ \A r \in 1..Len(b) :
                     /\ b[r].importance_score = Abs(e.values[b[r].feature_index + 1])
                     /\ b[r].importance_score >= 0
               /\ \A r \in 1..(Len(b) - 1) :
                     b[r].importance_score >= b[r + 1].importance_score
               /\ \A x \in (0..(n_cols - 1)) \ inBlock : \A r \in 1..Len(b) :
                     Abs(e.values[x + 1]) <= b[r].importance_score
               /\ \A S \in SUBSET (1..n_cols) :
                     BlockOutcomes(feature_names,
                                   Entry(e.key, e.method, Negated(e.values, S)),
                                   arg) = {Returned(b)}

C12_Witness ==
    /\ SummaryBuilt /\ arg = 1 /\ n_cols = 2
    /\ \E e \in L2Entries :
          /\ e.values = <<0, 0 - 1>>
          /\ Len(Block(e.method)) = 1
          /\ Block(e.method)[1].feature_index = 1
          /\ Block(e.method)[1].importance_score = 1

\* ---------------------------------------------------------------------------
\* The summary is recomputed on demand
\* ---------------------------------------------------------------------------

\* The step is a call of create_importance_summary.
SummaryCall == op' = "create_importance_summary" /\ calls' = calls + 1

\* C15: every call of create_importance_summary leaves the importance results
\* and the feature names as they were, builds its table from them alone and
\* stores it in place of the table of any earlier call; a call that repeats the
\* call before it, with the same top_k and no scorer in between, yields the
\* identical table.
C15_SummaryRecomputed ==
    [][SummaryCall =>
          /\ feature_importance_results' = feature_importance_results
          /\ feature_names' = feature_names
          /\ ret' \in SummaryOutcomes(feature_names, feature_importance_results, arg')
          /\ ~ret'.raised => importance_summary' = Some(ret'.val)
          /\ repeated' => (ret' = ret /\ importance_summary' = importance_summary)]_vars

\* A second call with the same top_k over a non-empty table.
C15_Witness ==
    /\ SummaryBuilt /\ repeated /\ arg = 1 /\ n_cols = 2
    /\ Len(Rows) = 1
    /\ \E e \in Aggregated : e.key = "tree_based" /\ e.values = <<1, 0>>

\* ---------------------------------------------------------------------------
\* Order of the pipeline stages
\* ---------------------------------------------------------------------------

\* The stages in the order the pipeline is to run them.
StageOrder ==
    <<"create_feature_names",
      "analyze_feature_importance_univariate",
      "analyze_model_coefficients",
      "analyze_tree_importance",
      "get_best_model",
      "analyze_permutation_importance",
      "create_importance_summary",
      "plot_feature_importance_comparison",
      "generate_biological_insights",
      "analyze_parkinson_specific_features",
      "create_feature_report">>

StageIndex(stage) == CHOOSE k \in 1..Len(StageOrder) : StageOrder[k] = stage

IsStage(x) == \E k \in 1..Len(StageOrder) : StageOrder[k] = x

\* C13: the stages of a pipeline run finish in the order name synthesis,
\* univariate, linear coefficients, tree importance, best-model selection,
\* permutation importance, summary, plot and insights and categorized analysis,
\* report; a stage is entered only when exactly the stages before it have
\* finished, and the report file is written only when every stage has finished
\* without raising.
C13_StagesInOrder ==
    /\ Len(stages_done) <= Len(StageOrder)
    /\ stages_done = SubSeq(StageOrder, 1, Len(stages_done))
    /\ IsStage(pc) => Len(stages_done) = StageIndex(pc) - 1
    /\ op = "get_best_model:loop" => pc = "get_best_model"
    /\ report_written => (stages_done = StageOrder /\ pc = "return")
    /\ pc = "raised" => ~report_written

\* A run that went through every stage and wrote the report.
C13_Witness ==
    /\ pc = "return"
    /\ report_written
    /\ stages_done = StageOrder
    /\ importance_summary.some /\ Len(importance_summary.v) > 0

\* ---------------------------------------------------------------------------
\* The interpretation table
\* ---------------------------------------------------------------------------

Interpreted == op = "_interpret_feature_biologically" /\ ~ret.raised

\* The places of the table whose keyword occurs in the name as it is written.
KeywordsIn(name) ==
    {k \in 1..Len(interpretations) : Contains(name, interpretations[k].key)}

\* C14: the call returns the sentence of the first keyword of the table, in the
\* table's order, that occurs in the name, and the default sentence exactly
\* when no keyword of the table occurs in the name.
C14_FirstKeywordInName ==
    Interpreted =>
        /\ KeywordsIn(arg) # {} =>
              \E k \in KeywordsIn(arg) :
                  /\ \A h \in KeywordsIn(arg) : k <= h
                  /\ ret.val = interpretations[k].interpretation
        /\ ret.val = DefaultInterpretation <=> KeywordsIn(arg) = {}

\* C18: a name that contains FC_ and none of the eight region keywords before
\* it in the table gets the sentence of the FC_ entry.
C18_ConnectivityNameGetsConnectivitySentence ==
    (/\ Interpreted
     /\ Contains(arg, "FC_")
     /\ \A k \in 1..Len(interpretations) :
           (interpretations[k].key # "FC_" /\ interpretations[k].key # "freq_power")
               => (~Contains(arg, interpretations[k].key)
                   /\ ~Contains(Lower(arg), interpretations[k].key)))
        => ret.val = "Altered brain network connectivity - hallmark of Parkinson's"

\* ---------------------------------------------------------------------------
\* The ROI count recovered from the column count
\* ---------------------------------------------------------------------------

\* The pipeline has computed its estimate of the ROI count.
Estimated == pc # "estimate" /\ pc # "none"

\* The pipeline has synthesized the names from its estimate.
NamesSynthesized == op = "create_feature_names" /\ ~ret.raised /\ feature_names.some

\* C16: for every n from 1 to 200, on a matrix of 3n + n(n-1)/2 + 3n columns the
\* pipeline's estimate of the ROI count is n, and the name list synthesized from
\* it has as many names as the matrix has columns.
C16_QuadraticRecoversRois ==
    \A n \in 1..200 :
        n_cols = NameCount(n) =>
            /\ Estimated => estimated_n_rois = n
            /\ NamesSynthesized => Len(feature_names.v) = n_cols

C16_Witness ==
    /\ NamesSynthesized
    /\ n_cols = NameCount(200)
    /\ estimated_n_rois = 200
    /\ Len(feature_names.v) = n_cols

\* The run has passed the statement that synthesizes names when none are given.
RunNamesSynthesized ==
    pc = "run:scorers" /\ op = "create_feature_names" /\ ~ret.raised

\* C17: in a run without supplied names, for every n >= 1, on a matrix of
\* 3n + n(n-1)/2 + 3n columns the name list synthesized from the estimate
\* floor(sqrt(F / 6)) has one name per column.
C17_SqrtEstimateAlignsNames ==
    RunNamesSynthesized =>
        \A n \in 1..MaxRunRois :
            n_cols = NameCount(n) => Len(feature_names.v) = n_cols

\* ---------------------------------------------------------------------------
\* The model behind the permutation scores
\* ---------------------------------------------------------------------------

\* The places of the models whose score call does not raise.
Scored == {i \in 1..Len(trained_models) : ~trained_models[i].raises}

\* The earliest of the scored models with the greatest score.
BestScored ==
    CHOOSE i \in Scored :
        /\ \A j \in Scored : trained_models[j].score <= trained_models[i].score
        /\ \A j \in Scored : trained_models[j].score = trained_models[i].score => i <= j

\* C19: the permutation scores are those of the scored model with the greatest
\* test score, the earliest on ties; the absolute linear coefficients stand in
\* exactly when no model could be scored; a raising score call does not abort.
C19_PermScoresFromBestScored ==
    op = "perm_scores" =>
        /\ ~ret.raised
        /\ Scored # {} =>
              ret.val = <<"permutation_importance", trained_models[BestScored].name>>
        /\ ret.val = <<"coefficients">> <=> Scored = {}

\* C20: on a non-empty dictionary get_best_model returns one of its keys; when
\* at least one model scores without raising, the key returned is that of a
\* scored model whose score no other scored model exceeds, the earliest in
\* dictionary order among equal scores.
C20_ReturnsBestScoredKey ==
    (op = "get_best_model" /\ Len(trained_models) > 0) =>
        /\ ~ret.raised
        /\ \E i \in 1..Len(trained_models) : ret.val = trained_models[i].name
        /\ Scored # {} => ret.val = trained_models[BestScored].name

\* ---------------------------------------------------------------------------
\* The categorizer on synthesized names
\* ---------------------------------------------------------------------------

\* The category the layout gives the name at index i of a list made for n ROIs.
BlockCategory(n, i) ==
    IF i < 3 * n
    THEN (IF i % 3 = 0 THEN "ROI Mean Activity" ELSE "ROI Variability")
    ELSE IF i < 3 * n + (n * (n - 1)) \div 2 THEN "Functional Connectivity"
    ELSE "Frequency Power"

\* C23: with default ROI names, the categorizer applied to a name made by
\* create_feature_names(n) returns the category of the name's block: ROI Mean
\* Activity at positions 0 mod 3 of the first 3n names and ROI Variability at
\* the others, Functional Connectivity for the next n(n-1)/2 names, Frequency
\* Power for the last 3n names, and never Other.
C23_CategoryAgreesWithBlock ==
    (CategorizerReturned /\ roi_names = None /\ feature_names.some) =>
        \A n \in 0..MaxRois :
            Len(feature_names.v) = NameCount(n) =>
                /\ ret.val = BlockCategory(n, arg)
                /\ ret.val # "Other"

\* A name of the connectivity block of a three-ROI list has been categorized.
C23_Witness ==
    /\ CategorizerReturned /\ roi_names = None /\ feature_names.some
    /\ Len(feature_names.v) = NameCount(3)
    /\ arg = 10
    /\ feature_names.v[arg + 1] = "FC_ROI_000_ROI_002"
    /\ ret.val = "Functional Connectivity"

\* ---------------------------------------------------------------------------
\* What a scorer writes
\* ---------------------------------------------------------------------------

\* The keys each scorer is to write.
OwnKeys(scorer) ==
    CASE scorer = "analyze_feature_importance_univariate" -> {"univariate_f", "univariate_mi"}
      [] scorer = "analyze_model_coefficients" -> {"linear_l1", "linear_l2"}
      [] scorer = "analyze_tree_importance" -> {"tree_based"}
      [] scorer = "analyze_permutation_importance" -> {"permutation"}
      [] OTHER -> {}

\* The step is a call of the interpreter's interface.
InterfaceCall == calls' = calls + 1

\* The entry stored under key k.
EntryAt(d, k) == d[CHOOSE i \in 1..Len(d) : d[i].key = k]

\* C22: a scorer call writes its own keys and nothing else: every other entry,
\* the feature names and a stored summary stay as they were, the key set grows
\* by exactly the scorer's keys, and no key is stored twice, so a second run of
\* a scorer replaces its entries; a call that is not a scorer leaves the
\* dictionary alone.  The keys are thus at all times those of the scorers run.
C22_ScorerWritesOwnKeys ==
    [][InterfaceCall =>
          /\ Keys(feature_importance_results') =
                 Keys(feature_importance_results) \cup OwnKeys(op')
          /\ Len(feature_importance_results') =
                 Cardinality(Keys(feature_importance_results'))
          /\ \A k \in Keys(feature_importance_results) \ OwnKeys(op') :
                 EntryAt(feature_importance_results', k) =
                     EntryAt(feature_importance_results, k)
          /\ OwnKeys(op') # {} =>
                 /\ feature_names' = feature_names
                 /\ importance_summary' = importance_summary
          /\ OwnKeys(op') = {} =>
                 feature_importance_results' = feature_importance_results]_vars

\* The tree scorer ran after a summary of the univariate scores was stored: the
\* table still holds the univariate rows only, and the dictionary has three keys.
C22_Witness ==
    /\ op = "analyze_tree_importance"
    /\ Keys(feature_importance_results) = {"univariate_f", "univariate_mi", "tree_based"}
    /\ Len(feature_importance_results) = 3
    /\ importance_summary.some
    /\ Len(importance_summary.v) > 0
    /\ \A r \in 1..Len(importance_summary.v) : importance_summary.v[r].method = "F-statistic"

\* ---------------------------------------------------------------------------
\* The readers of the summary table
\* ---------------------------------------------------------------------------

Readers == {"plot_feature_importance_comparison", "generate_biological_insights"}

\* C21: a reader builds a summary table, with the default top_k of 20, only when
\* none is stored; a stored table is used as it is and stays as it is.  Only a
\* summary call or such a first build stores a table, so the table a reader
\* works on is that of the latest summary call, whatever scorers ran since.
C21_ReadersUseStoredTable ==
    [][InterfaceCall =>
          /\ (op' \in Readers /\ importance_summary.some) =>
                /\ importance_summary' = importance_summary
                /\ ~ret'.raised => ret'.val = importance_summary.v
          /\ (op' \in Readers /\ ~importance_summary.some) =>
                \/ ret'.raised /\ ret'.exc = IndexError /\ ~importance_summary'.some
                \/ /\ importance_summary'.some
                   /\ Returned(importance_summary'.v) \in
                          SummaryOutcomes(feature_names, feature_importance_results, 20)
                   /\ ~ret'.raised => ret'.val = importance_summary'.v
          /\ op' \in Readers =>
                /\ feature_importance_results' = feature_importance_results
                /\ feature_names' = feature_names
          /\ (op' \notin Readers /\ op' # "create_importance_summary") =>
                importance_summary' = importance_summary]_vars

\* A reader has returned the one-row table of a summary call with top_k = 1 on a
\* two-column matrix; a table built with the default top_k would have two rows.
C21_Witness ==
    /\ op \in Readers /\ ~ret.raised
    /\ n_cols = 2
    /\ Keys(feature_importance_results) = {"tree_based"}
    /\ importance_summary.some
    /\ Len(importance_summary.v) = 1
    /\ ret.val = importance_summary.v

====
